---------------------------- MODULE Spec2Model ----------------------------
(***************************************************************************)
(* Model of the Shopify discovery pipelines of louisvrd/scrapping:         *)
(*   scanNiche, scanMassive          (pipeline/scanNiche, scanMassive)     *)
(*   scanBingBulk                    (pipeline/scanBingBulk)               *)
(*   scanCT + ConcurrencyPool        (pipeline/scanCT)                     *)
(*   scanNicheWithBing               (pipeline/scanNicheWithBing.ts)       *)
(*   massFetchDomainsFromCT          (ct/massCtScanner)                    *)
(* An await is a step: the JavaScript between two awaits runs atomically   *)
(* on the single event-loop thread, so it is one action.                   *)
(***************************************************************************)
EXTENDS Integers, Sequences, FiniteSets, TLC

(***************************************************************************)
(* Bounds of the model.                                                    *)
(***************************************************************************)
MaxItems == 2        \* longest list one harvest call returns
MaxQueries == 2      \* most queries handed to scanBingBulk
MaxConc == 2         \* largest configured concurrency
MaxMonths == 2       \* most date-range queries of the mass CT scan (ceil(daysBack/30))
MaxCerts == 3        \* most certificates in one crt.sh answer
MaxCap == 2          \* largest maxTotalDomains / stopAfterConsecutiveErrors tried

(***************************************************************************)
(* Program constants.                                                      *)
(***************************************************************************)
MinHtmlLength == 100       \* html.length < 100 is "trop court"
maxFetchAttempts == 2      \* scanCT's fetch retry
maxConsecutiveErrors == 5  \* massFetchDomainsFromCT's circuit breaker

Orchestrators ==
    {"scanNiche", "scanMassive", "scanBingBulk", "scanCT", "scanNicheWithBing"}

(***************************************************************************)
(* Small helpers.                                                          *)
(***************************************************************************)
Range(s) == {s[k] : k \in 1..Len(s)}

Min(a, b) == IF a <= b THEN a ELSE b

SeqsUpTo(S, n) == UNION {[1..k -> S] : k \in 0..n}

NoDup(s) == \A a, b \in 1..Len(s) : s[a] = s[b] => a = b

(***************************************************************************)
(* Page content.  A content is its length and the set of the classifier's  *)
(* regular expressions it matches; NullHtml is fetchHtml's null.           *)
(***************************************************************************)
highConfidencePatterns ==
    {"cdn.shopify.com", "shopifycdn.com", "window.shopify", "shopify.theme",
     "shopify.settings", "shopify.analytics", "shopify.checkout"}

mediumConfidencePatterns ==
    {".myshopify.com", "data-shopify", "shopify-section", "shopify-section-id",
     "shopify.js", "shopify.theme.js", "/collections/", "/products/"}

lowConfidencePatterns == {"/cart", "/checkout", "shopify.com"}

NullHtml == [len |-> -1, pats |-> {}]

IsNull(html) == html.len < 0

\* JavaScript's !html for string | null: null or the empty string
Falsy(html) == IsNull(html) \/ html.len = 0

PatternTest(pattern, html) == pattern \in html.pats

CountMatches(patterns, html) ==
    Cardinality({p \in patterns : PatternTest(p, html)})

\* a classifier without the high-confidence rule
isShopifyHtmlNoTierA(html) ==
    IF Falsy(html) THEN FALSE
    ELSE LET mediumCount == CountMatches(mediumConfidencePatterns, html)
             lowCount == CountMatches(lowConfidencePatterns, html)
         IN  mediumCount >= 2 \/ (mediumCount >= 1 /\ lowCount >= 2)

\* a classifier for which one medium and one low pattern are enough
isShopifyHtmlOneLow(html) ==
    IF Falsy(html) THEN FALSE
    ELSE LET highCount == CountMatches(highConfidencePatterns, html)
             mediumCount == CountMatches(mediumConfidencePatterns, html)
             lowCount == CountMatches(lowConfidencePatterns, html)
         IN  highCount >= 1 \/ mediumCount >= 2 \/ (mediumCount >= 1 /\ lowCount >= 1)

\* a classifier for which three low patterns are enough
isShopifyHtmlLowAlone(html) ==
    IF Falsy(html) THEN FALSE
    ELSE LET highCount == CountMatches(highConfidencePatterns, html)
             mediumCount == CountMatches(mediumConfidencePatterns, html)
             lowCount == CountMatches(lowConfidencePatterns, html)
         IN  \/ highCount >= 1
             \/ mediumCount >= 2
             \/ (mediumCount >= 1 /\ lowCount >= 2)
             \/ mediumCount + lowCount >= 3

\* a classifier whose hosted-subdomain rule needs two matches only
isShopifyHtmlHostedTwo(html) ==
    IF Falsy(html) THEN FALSE
    ELSE LET highCount == CountMatches(highConfidencePatterns, html)
             mediumCount == CountMatches(mediumConfidencePatterns, html)
             lowCount == CountMatches(lowConfidencePatterns, html)
             hasMyshopify == PatternTest(".myshopify.com", html)
         IN  \/ highCount >= 1
             \/ mediumCount >= 2
             \/ (mediumCount >= 1 /\ lowCount >= 2)
             \/ (hasMyshopify /\ (mediumCount + lowCount) >= 2)

isShopifyHtml(html) ==
    IF Falsy(html) THEN FALSE
    ELSE LET highCount == CountMatches(highConfidencePatterns, html)
             mediumCount == CountMatches(mediumConfidencePatterns, html)
             lowCount == CountMatches(lowConfidencePatterns, html)
             hasMyshopify == PatternTest(".myshopify.com", html)
         IN  \/ highCount >= 1
             \/ mediumCount >= 2
             \/ (mediumCount >= 1 /\ lowCount >= 2)
             \/ (hasMyshopify /\ (mediumCount + lowCount) >= 3)

isShopify(html) == isShopifyHtml(html)

\* weights in tenths: 0.4 is 4
weightedPatterns ==
    {<<"cdn.shopify.com", 4>>, <<".myshopify.com", 4>>, <<"window.shopify", 3>>,
     <<"shopify.theme", 3>>, <<"shopifycdn.com", 3>>, <<"data-shopify", 2>>,
     <<"shopify-section", 2>>, <<"/collections/", 1>>, <<"/products/", 1>>}

RECURSIVE SumWeights(_)
SumWeights(ws) ==
    IF ws = {} THEN 0
    ELSE LET w == CHOOSE x \in ws : TRUE
         IN  w[2] + SumWeights(ws \ {w})

\* a score that is not clamped
getShopifyConfidenceUnclamped(html) ==
    IF Falsy(html) THEN 0
    ELSE SumWeights({w \in weightedPatterns : PatternTest(w[1], html)})

\* a score that starts from certainty when there is no content
getShopifyConfidenceNoGuard(html) ==
    IF Falsy(html) THEN 10
    ELSE Min(SumWeights({w \in weightedPatterns : PatternTest(w[1], html)}), 10)

\* the score in tenths, 0..10
getShopifyConfidence(html) ==
    IF Falsy(html) THEN 0
    ELSE Min(SumWeights({w \in weightedPatterns : PatternTest(w[1], html)}), 10)


(***************************************************************************)
(* The orchestrators' differences.                                         *)
(***************************************************************************)
IsBulk(o) == o \in {"scanBingBulk", "scanMassive"}

IsConcurrent(o) == o \in {"scanCT", "scanNicheWithBing"}

\* new URL(url) is called by every orchestrator but scanCT
ParsesUrl(o) == o # "scanCT"

\* resolveCname is called by these
HasCname(o) == o \in {"scanBingBulk", "scanCT", "scanNicheWithBing"}

\* html.length < 100 is rejected by these
HasLengthCheck(o) == o \in {"scanBingBulk", "scanCT"}

\* getShopifyConfidence is recorded by these
HasConfidence(o) == o \in {"scanNiche", "scanMassive"}

\* a retry policy of three attempts for every orchestrator
FetchAttemptLimitThree(o) == maxFetchAttempts + 1

FetchAttemptLimit(o) == IF o = "scanCT" THEN maxFetchAttempts ELSE 1

(***************************************************************************)
(* The world the probes see.  A candidate is a URL string (a domain for    *)
(* scanCT).  "http://" is a string new URL() rejects.                      *)
(***************************************************************************)
SearchUrls == {"https://a.myshopify.com", "https://b.example.com", "http://"}

DomainPool == <<"a.myshopify.com", "b.myshopify.com", "c.myshopify.com">>

ShopUrls == {"https://" \o DomainPool[k] : k \in 1..Len(DomainPool)}

IsValidUrl(url) == url # "http://"

\* new URL(url).hostname
Hostname(url) ==
    CASE url = "https://a.myshopify.com" -> "a.myshopify.com"
      [] url = "https://A.myshopify.com" -> "a.myshopify.com"
      [] url = "https://b.myshopify.com" -> "b.myshopify.com"
      [] url = "https://c.myshopify.com" -> "c.myshopify.com"
      [] url = "https://b.example.com" -> "b.example.com"
      [] OTHER -> url

\* the alias records of the DNS zone: resolveCname's cnames ([] on ENODATA,
\* ENOTFOUND or any other failure)
CnamesOf(domain) ==
    IF domain \in {"a.myshopify.com", "c.myshopify.com"}
    THEN <<"shops.myshopify.com">> ELSE <<>>

\* what fetchHtml can answer: null, an empty body, and bodies on both sides
\* of the length threshold, with and without a Tier-A pattern
CdnPats == {"cdn.shopify.com", "shopify.com"}

FetchOutcomes ==
    {NullHtml,
     [len |-> 0, pats |-> {}],
     [len |-> MinHtmlLength - 1, pats |-> CdnPats],
     [len |-> MinHtmlLength, pats |-> CdnPats],
     [len |-> MinHtmlLength, pats |-> {}]}

\* an awaited call rejecting inside the per-item try block (what the catch
\* block of the pipeline handles); dnsCheck, dnsLookup, resolveCname and
\* fetchHtml catch every error themselves and never answer it
Rejected == [len |-> -2, pats |-> {}]

\* the title a harvest call gives a URL: the search page's text, one per call
HarvestTitle(call, url) == "t" \o ToString(call) \o " " \o url

\* queries[k] of scanBingBulk
QueryName(k) == "q" \o ToString(k)

SearchResult(call, url) == [title |-> HarvestTitle(call, url), url |-> url]

\* the lists one search call can return (duplicates and unparsable URLs included)
SearchLists(call) ==
    {[k \in DOMAIN us |-> SearchResult(call, us[k])] : us \in SeqsUpTo(SearchUrls, MaxItems)}

\* the lists getShopifyDomainsFromCT can return: built from a Set of
\* lower-cased domains, with the domain as title
SourceLists ==
    {[k \in DOMAIN us |-> [title |-> Hostname(us[k]), url |-> us[k]]] :
        us \in {x \in SeqsUpTo(ShopUrls, MaxItems) : NoDup(x)}}

\* the lists getShopifyUrlsFromGitHub can return: the URLs as written in the
\* files it read (the match of a case-insensitive pattern), distinct as strings
GitHubLists ==
    {[k \in DOMAIN us |-> [title |-> Hostname(us[k]), url |-> us[k]]] :
        us \in {x \in SeqsUpTo({"https://a.myshopify.com", "https://A.myshopify.com"},
                                MaxItems) : NoDup(x)}}

\* the lists fetchDomainsFromCT can return to scanCT: distinct domains
CtDomainLists ==
    {[k \in 1..n |-> [title |-> DomainPool[k], url |-> DomainPool[k]]] :
        n \in 0..Min(MaxItems, Len(DomainPool))}

(***************************************************************************)
(* State of one orchestrator run.                                          *)
(***************************************************************************)
VARIABLES
    orch,          \* the orchestrator that runs
    pc,            \* where its async function is suspended
    concurrency,   \* scanCT's options.concurrency, scanNicheWithBing's concurrency
    useGenericQueries, \* scanMassive's option
    nQueries,      \* queries.length (scanBingBulk), number of sources (scanMassive)
    qi,            \* the harvest call in progress, 1-based
    harvestCalls,  \* history: harvest calls issued so far
    harvestLog,    \* history: how each harvest call ended, in order
    firstSeen,     \* history: url -> the title and query of the first call returning it
    seenAgain,     \* history: URLs returned by more than one call
    allUrls,       \* the Set allUrls, in insertion order
    urlToTitle,    \* the Map urlToTitle
    urlToQuery,    \* the Map urlToQuery
    candidates,    \* searchResults / domains / urlsArray: what the scan stage gets
    nextIdx,       \* the scan loop's i, 1-based
    running,       \* the pool's running counter
    queue,         \* ConcurrencyPool.queue: indices of the tasks not yet started
    item,          \* per candidate: the stage of its pipeline, its fetch attempts,
                   \* and (history) the length of the content given to the classifier
    results,       \* the results array
    shopifyUrls,   \* the shopifyUrls array
    report         \* the returned object

(***************************************************************************)
(* State of one massFetchDomainsFromCT run.                                *)
(***************************************************************************)
VARIABLES
    mpc,               \* where massFetchDomainsFromCT is suspended
    mOpts,             \* its options (0 is "not given")
    mQueries,          \* the generated queries, by kind
    queryIndex,        \* queryIndex
    allDomains,        \* the Set allDomains, in insertion order
    patternsUsed,      \* patternsUsed
    consecutiveErrors, \* consecutiveErrors
    mLog,              \* history: for each adapter call made, did it fail
    mReturned,         \* history: every domain an adapter call returned
    mResult            \* the returned object

(***************************************************************************)
(* State of one call of the classifier and of one call of a certificate    *)
(* log adapter.                                                            *)
(***************************************************************************)
VARIABLES
    cpc,           \* "idle", or "called" once a content was handed to the classifier
    content,       \* the html argument
    verdict,       \* what isShopifyHtml / isShopify returned ("none" before)
    score,         \* what getShopifyConfidence returned, in tenths (-1 before)
    apc,           \* "idle", or "answered" once crt.sh answered
    response,      \* the JSON array crt.sh answered: one list of lines per certificate
    aLimit,        \* the cap asked for: maxResults, options.limit (0: not given)
    ctSource,      \* what getShopifyDomainsFromCT returned (<<>> before)
    ctDomains,     \* what fetchDomainsFromCT returned (<<>> before)
    probe,         \* what the network will answer to fetch, lookup and resolveCname
    answer         \* what fetchHtml, dnsLookup and resolveCname made of it

classVars == <<cpc, content, verdict, score>>

adapterVars == <<apc, response, aLimit, ctSource, ctDomains>>

unitVars == <<classVars, adapterVars, probe, answer>>

massVars == <<mpc, mOpts, mQueries, queryIndex, allDomains, patternsUsed,
              consecutiveErrors, mLog, mReturned, mResult>>

vars == <<massVars, unitVars, orch, pc, concurrency, useGenericQueries, nQueries, qi, harvestCalls,
          harvestLog, firstSeen, seenAgain, allUrls, urlToTitle, urlToQuery,
          candidates, nextIdx, running, queue, item, results, shopifyUrls, report>>

harvestVars == <<harvestCalls, harvestLog, firstSeen, seenAgain, allUrls,
                 urlToTitle, urlToQuery, qi>>

configVars == <<massVars, unitVars, orch, concurrency, useGenericQueries, nQueries>>

EmptyMap == [x \in {} |-> ""]

MapSet(f, k, v) == [x \in (DOMAIN f) \cup {k} |-> IF x = k THEN v ELSE f[x]]

NoReport ==
    [returned |-> FALSE, scannedCount |-> 0, shopifyCount |-> 0, totalUrls |-> 0,
     results |-> <<>>, shopifyUrls |-> <<>>]

NoMassResult == [returned |-> FALSE, patternsUsed |-> <<>>, totalDomains |-> 0,
                 domains |-> <<>>]

NoMassOpts ==
    [limitPerPattern |-> 0, maxTotalDomains |-> 0, sleepMsBetweenRequests |-> 0,
     stopAfterConsecutiveErrors |-> 0, monthsBack |-> 0, useDifferentEndpoints |-> FALSE]

\* no mass scan runs
IdleMass ==
    /\ mpc = "idle"
    /\ mOpts = NoMassOpts
    /\ mQueries = <<>>
    /\ queryIndex = 0
    /\ allDomains = <<>>
    /\ patternsUsed = <<>>
    /\ consecutiveErrors = 0
    /\ mLog = <<>>
    /\ mReturned = {}
    /\ mResult = NoMassResult

\* a probe that returned a value
Returned(v) == [state |-> "returned", value |-> v]

\* the three probes not called yet
NoAnswer ==
    [html |-> [state |-> "pending", value |-> NullHtml],
     dns |-> [state |-> "pending", value |-> [ok |-> FALSE, error |-> ""]],
     cname |-> [state |-> "pending",
                value |-> [ok |-> FALSE, cnames |-> <<>>, error |-> ""]]]

\* no classifier call, no adapter call, no probe
IdleUnits ==
    /\ cpc = "idle"
    /\ content = NullHtml
    /\ verdict = "none"
    /\ score = -1
    /\ apc = "idle"
    /\ response = <<>>
    /\ aLimit = 0
    /\ ctSource = <<>>
    /\ ctDomains = <<>>
    /\ probe = <<>>
    /\ answer = NoAnswer

\* an item of the scan stage: where its pipeline is, the fetch attempts made,
\* and (history) the length and the patterns of the content handed to the
\* classifier and the exit its pipeline took
PendingItem ==
    [stage |-> "pending", attempts |-> 0, clsLen |-> -1, clsPats |-> {}, route |-> "none"]

InitWith(Concs) ==
    \E o \in Orchestrators, c \in Concs, q \in 1..MaxQueries, g \in BOOLEAN :
        /\ IsConcurrent(o) \/ c = 1
        /\ o = "scanBingBulk" \/ q = 1
        /\ o = "scanMassive" \/ g
        /\ orch = o
        /\ concurrency = c
        /\ useGenericQueries = g
        /\ nQueries = (IF o = "scanMassive" THEN (IF g THEN 2 ELSE 1) ELSE q)
        /\ pc = "issue"
        /\ qi = 1
        /\ harvestCalls = 0
        /\ harvestLog = <<>>
        /\ firstSeen = EmptyMap
        /\ seenAgain = {}
        /\ allUrls = <<>>
        /\ urlToTitle = EmptyMap
        /\ urlToQuery = EmptyMap
        /\ candidates = <<>>
        /\ nextIdx = 1
        /\ running = 0
        /\ queue = <<>>
        /\ item = <<>>
        /\ results = <<>>
        /\ shopifyUrls = <<>>
        /\ report = NoReport
        /\ IdleMass
        /\ IdleUnits

Init == InitWith(1..MaxConc)

(***************************************************************************)
(* Harvest stage.                                                          *)
(***************************************************************************)
sleepMsBetweenQueries == 3000

Raise == [raised |-> TRUE, list |-> <<>>]

Returns(list) == [raised |-> FALSE, list |-> list]

\* the first index of url in list
FirstIndex(list, url) == CHOOSE k \in 1..Len(list) :
    /\ list[k].url = url
    /\ \A j \in 1..(k - 1) : list[j].url # url

Urls(list) == {list[k].url : k \in 1..Len(list)}

\* history of the harvest: who returned each URL first, which came back
NoteFirstSeen(seen, list, call) ==
    [u \in (DOMAIN seen) \cup Urls(list) |->
        IF u \in DOMAIN seen THEN seen[u]
        ELSE [title |-> list[FirstIndex(list, u)].title, query |-> QueryName(call)]]

NoteHarvest(out) ==
    /\ harvestLog' = Append(harvestLog, IF out.raised THEN "raised" ELSE "ok")
    /\ firstSeen' = NoteFirstSeen(firstSeen, out.list, qi)
    /\ seenAgain' = seenAgain \cup (Urls(out.list) \cap DOMAIN firstSeen)

Aggregate == [allUrls |-> allUrls, urlToTitle |-> urlToTitle, urlToQuery |-> urlToQuery]

RECURSIVE BingAddAllLastWins(_, _, _, _)
\* an aggregation in which the latest title and query of a URL replace the first
BingAddAllLastWins(agg, list, query, k) ==
    IF k > Len(list) THEN agg
    ELSE BingAddAllLastWins(
            [allUrls |-> IF list[k].url \in Range(agg.allUrls) THEN agg.allUrls
                         ELSE Append(agg.allUrls, list[k].url),
             urlToTitle |-> MapSet(agg.urlToTitle, list[k].url, list[k].title),
             urlToQuery |-> MapSet(agg.urlToQuery, list[k].url, query)],
            list, query, k + 1)

RECURSIVE BingAddAll(_, _, _, _)
\* scanBingBulk: for (const result of searchResults) if (!allUrls.has(url)) {...}
BingAddAll(agg, list, query, k) ==
    IF k > Len(list) THEN agg
    ELSE IF list[k].url \in Range(agg.allUrls)
         THEN BingAddAll(agg, list, query, k + 1)
         ELSE BingAddAll([allUrls |-> Append(agg.allUrls, list[k].url),
                          urlToTitle |-> MapSet(agg.urlToTitle, list[k].url, list[k].title),
                          urlToQuery |-> MapSet(agg.urlToQuery, list[k].url, query)],
                         list, query, k + 1)

\* an add that does not look for the element
SetAddAgain(seq, x) == Append(seq, x)

\* Set.add, the Set kept as the list of its elements in insertion order
SetAdd(seq, x) == IF x \in Range(seq) THEN seq ELSE Append(seq, x)

RECURSIVE MassiveAddCT(_, _, _)
\* scanMassive, source 1: allUrls.add(url); urlToTitle.set(url, title)
MassiveAddCT(agg, list, k) ==
    IF k > Len(list) THEN agg
    ELSE MassiveAddCT([agg EXCEPT !.allUrls = SetAdd(@, list[k].url),
                                  !.urlToTitle = MapSet(@, list[k].url, list[k].title)],
                      list, k + 1)

\* an aggregation that ignores what the second source returned
MassiveAddGitHubNone(agg, list, k) == agg

RECURSIVE MassiveAddGitHub(_, _, _)
\* scanMassive, source 2: allUrls.add(url); if (!urlToTitle.has(url)) set
MassiveAddGitHub(agg, list, k) ==
    IF k > Len(list) THEN agg
    ELSE MassiveAddGitHub(
            [agg EXCEPT !.allUrls = SetAdd(@, list[k].url),
                        !.urlToTitle = IF list[k].url \in DOMAIN @ THEN @
                                       ELSE MapSet(@, list[k].url, list[k].title)],
            list, k + 1)

\* Array.from(allUrls): the scan stage of the bulk orchestrators reads the maps
UrlsArray(urls) == [k \in 1..Len(urls) |-> [title |-> "", url |-> urls[k]]]

ScanEntry(o) ==
    CASE o = "scanCT" -> "map"
      [] o = "scanNicheWithBing" -> "loop"
      [] OTHER -> "scan"

StartScan(cands) ==
    /\ candidates' = cands
    /\ item' = [k \in 1..Len(cands) |-> PendingItem]
    /\ pc' = ScanEntry(orch)
    /\ UNCHANGED <<nextIdx, running, queue, results, shopifyUrls, report>>

\* the returned report; its count of scanned candidates is scannedCount:
\* results.length, which scanBingBulk reports as totalUrls: allUrls.size
MakeReport(rs, su) ==
    [returned |-> TRUE,
     scannedCount |-> IF orch = "scanBingBulk" THEN Len(allUrls) ELSE Len(rs),
     shopifyCount |-> Len(su),
     totalUrls |-> Len(allUrls),
     results |-> rs,
     shopifyUrls |-> su]

\* the early returns: scannedCount 0, results []
ReturnEmpty ==
    /\ pc' = "returned"
    /\ report' = MakeReport(<<>>, <<>>)
    /\ UNCHANGED <<candidates, item, nextIdx, running, queue, results, shopifyUrls>>

\* a harvest call is issued: searchBing, the engine cascade, fetchDomainsFromCT,
\* getShopifyDomainsFromCT, getShopifyUrlsFromGitHub
IssueHarvest ==
    /\ pc = "issue"
    /\ pc' = "searching"
    /\ harvestCalls' = harvestCalls + 1
    /\ UNCHANGED <<configVars, harvestLog, firstSeen, seenAgain, allUrls, urlToTitle,
                   urlToQuery, qi, candidates, nextIdx, running, queue, item,
                   results, shopifyUrls, report>>

\* what the single harvest call of scanNiche, scanNicheWithBing, scanCT can do;
\* fetchDomainsFromCT catches every error and returns what it has
SingleOutcomes(o) ==
    IF o = "scanCT" THEN {Returns(l) : l \in CtDomainLists}
    ELSE {Raise} \cup {Returns(l) : l \in SearchLists(1)}

SearchReturn ==
    /\ orch \in {"scanNiche", "scanNicheWithBing", "scanCT"}
    /\ pc = "searching"
    /\ \E out \in SingleOutcomes(orch) :
        /\ NoteHarvest(out)
        /\ IF out.raised \/ Len(out.list) = 0
           THEN ReturnEmpty
           ELSE StartScan(out.list)
    /\ UNCHANGED <<configVars, harvestCalls, allUrls, urlToTitle, urlToQuery, qi>>

\* a harvest loop that starts the scan stage after its first call
AfterHarvestScanEarly(agg, pause) ==
    /\ allUrls' = agg.allUrls
    /\ urlToTitle' = agg.urlToTitle
    /\ urlToQuery' = agg.urlToQuery
    /\ qi' = qi
    /\ StartScan(UrlsArray(agg.allUrls))

\* after harvest call qi of a bulk orchestrator, with the aggregate it leaves
AfterHarvest(agg, pause) ==
    /\ allUrls' = agg.allUrls
    /\ urlToTitle' = agg.urlToTitle
    /\ urlToQuery' = agg.urlToQuery
    /\ IF qi < nQueries
       THEN /\ pc' = (IF pause THEN "pause" ELSE "issue")
            /\ qi' = (IF pause THEN qi ELSE qi + 1)
            /\ UNCHANGED <<candidates, item, nextIdx, running, queue, results,
                           shopifyUrls, report>>
       ELSE /\ qi' = qi
            /\ StartScan(UrlsArray(agg.allUrls))

\* a harvest error that ends the run with an empty report
AbortOnHarvestError(agg) ==
    /\ ReturnEmpty
    /\ UNCHANGED <<allUrls, urlToTitle, urlToQuery, qi>>

\* catch (error) of a harvest call: log, no pause, go on with the next source
OnHarvestError(agg) == AfterHarvest(agg, FALSE)

BingBulkReturn ==
    /\ orch = "scanBingBulk"
    /\ pc = "searching"
    /\ \E out \in {Raise} \cup {Returns(l) : l \in SearchLists(qi)} :
        /\ NoteHarvest(out)
        /\ IF out.raised
           THEN OnHarvestError(Aggregate)
           ELSE AfterHarvest(BingAddAll(Aggregate, out.list, QueryName(qi), 1),
                             sleepMsBetweenQueries > 0)
    /\ UNCHANGED <<configVars, harvestCalls>>

PauseDone ==
    /\ pc = "pause"
    /\ pc' = "issue"
    /\ qi' = qi + 1
    /\ UNCHANGED <<configVars, harvestCalls, harvestLog, firstSeen, seenAgain, allUrls,
                   urlToTitle, urlToQuery, candidates, nextIdx, running, queue, item,
                   results, shopifyUrls, report>>

\* source 1 is getShopifyDomainsFromCT, which rethrows; source 2 is
\* getShopifyUrlsFromGitHub, which returns [] without a token and catches the rest
MassiveReturn ==
    /\ orch = "scanMassive"
    /\ pc = "searching"
    /\ \E out \in (IF qi = 1 THEN {Raise} \cup {Returns(l) : l \in SourceLists}
                   ELSE {Returns(l) : l \in GitHubLists}) :
        /\ NoteHarvest(out)
        /\ IF out.raised
           THEN OnHarvestError(Aggregate)
           ELSE IF qi = 1
                THEN AfterHarvest(MassiveAddCT(Aggregate, out.list, 1), FALSE)
                ELSE AfterHarvest(MassiveAddGitHub(Aggregate, out.list, 1), FALSE)
    /\ UNCHANGED <<configVars, harvestCalls>>

(***************************************************************************)
(* Scan stage: the per-item pipeline.                                      *)
(***************************************************************************)
ItemUrl(o, i) ==
    IF o = "scanCT" THEN "https://" \o candidates[i].url ELSE candidates[i].url

ItemDomain(o, i) ==
    IF o = "scanCT" THEN candidates[i].url ELSE Hostname(candidates[i].url)

\* urlToTitle.get(url) || url for the bulk orchestrators, result.title otherwise
ItemTitle(o, i) ==
    LET url == candidates[i].url
    IN  IF IsBulk(o)
        THEN (IF url \in DOMAIN urlToTitle /\ urlToTitle[url] # "" THEN urlToTitle[url]
              ELSE url)
        ELSE candidates[i].title

\* urlToQuery.get(url) || queries[0]
ItemQuery(o, i) ==
    LET url == candidates[i].url
    IN  IF o = "scanBingBulk"
        THEN (IF url \in DOMAIN urlToQuery THEN urlToQuery[url] ELSE QueryName(1))
        ELSE ""

\* the result object as created; idx (history) is the candidate it belongs to
NewResult(o, i) ==
    [idx |-> i,
     url |-> ItemUrl(o, i),
     title |-> ItemTitle(o, i),
     query |-> ItemQuery(o, i),
     dnsOk |-> FALSE,
     cnames |-> <<>>,
     htmlFetched |-> FALSE,
     isShopify |-> FALSE,
     confidence |-> -1,
     error |-> "none"]

InvalidUrlResult(o, i) == [NewResult(o, i) EXCEPT !.error = "URL invalide"]

\* a result that records a failed domain check as passed
DnsFailResultAsResolved(o, i) == [NewResult(o, i) EXCEPT !.dnsOk = TRUE]

\* a result that records a content fetch for a domain that did not resolve
DnsFailResultFetched(o, i) ==
    [NewResult(o, i) EXCEPT !.htmlFetched = TRUE, !.error = "DNS"]

DnsFailResult(o, i) == [NewResult(o, i) EXCEPT !.error = "DNS"]

\* a result on which a lookup without alias leaves an error
ResolvedResultAliasError(o, i) ==
    [NewResult(o, i) EXCEPT !.dnsOk = TRUE,
                            !.error = IF HasCname(o) /\ CnamesOf(ItemDomain(o, i)) = <<>>
                                      THEN "CNAME" ELSE "none"]

\* a result that an alias pointing to Shopify makes positive
ResolvedResultAliasPositive(o, i) ==
    [NewResult(o, i) EXCEPT !.dnsOk = TRUE,
                            !.cnames = IF HasCname(o) THEN CnamesOf(ItemDomain(o, i))
                                       ELSE <<>>,
                            !.isShopify = HasCname(o) /\ CnamesOf(ItemDomain(o, i)) # <<>>]

\* the result once the domain resolved and the alias lookup (if any) answered
ResolvedResult(o, i) ==
    [NewResult(o, i) EXCEPT !.dnsOk = TRUE,
                            !.cnames = IF HasCname(o) THEN CnamesOf(ItemDomain(o, i))
                                       ELSE <<>>]

\* is the content handed to isShopifyHtml / isShopify
ClassifierCalled(o, html) ==
    /\ html # Rejected
    /\ ~Falsy(html)
    /\ HasLengthCheck(o) => html.len >= MinHtmlLength

\* htmlFetched: html !== null, except scanBingBulk which sets it after if (!html)
HtmlFetchedFlag(o, html) ==
    IF o = "scanBingBulk" THEN ~Falsy(html) ELSE ~IsNull(html)

\* a fetch failure that records no error
NoHtmlErrorNone(o) == "none"

NoHtmlError(o) ==
    IF o \in {"scanNiche", "scanMassive"} THEN "Impossible de recuperer le HTML"
    ELSE "HTML non recupere"

\* the result once the last fetch attempt answered html
FetchedResult(o, i, html) ==
    LET base == ResolvedResult(o, i)
    IN  IF html = Rejected THEN [base EXCEPT !.error = "exception"]
        ELSE IF Falsy(html)
        THEN [base EXCEPT !.htmlFetched = HtmlFetchedFlag(o, html),
                          !.error = NoHtmlError(o)]
        ELSE IF ~ClassifierCalled(o, html)
        THEN [base EXCEPT !.htmlFetched = TRUE,
                          !.error = "HTML trop court ou invalide"]
        ELSE [base EXCEPT !.htmlFetched = TRUE,
                          !.isShopify = isShopifyHtml(html),
                          !.confidence = IF HasConfidence(o)
                                         THEN getShopifyConfidence(html) ELSE -1]

\* the exit the pipeline takes once the last fetch attempt answered html
FetchRoute(o, html) ==
    IF html = Rejected THEN "exception"
    ELSE IF Falsy(html) THEN "fetch"
    ELSE IF ~ClassifierCalled(o, html) THEN "short"
    ELSE "classified"

\* a push that loses the result of an item that failed
PushResultDropFailed(rs, r) == IF r.error # "none" THEN rs ELSE Append(rs, r)

\* a push that keeps results in the order of the candidate list
PushResultInInputOrder(rs, r) ==
    LET before == SelectSeq(rs, LAMBDA x : x.idx < r.idx)
        after == SelectSeq(rs, LAMBDA x : x.idx > r.idx)
    IN  before \o <<r>> \o after

\* a push at the front of results
PushResultFront(rs, r) == <<r>> \o rs

\* results.push(result)
PushResult(rs, r) == Append(rs, r)

\* a processQueue that starts every queued task
ProcessQueueAll(run, q) == Len(q)

\* a processQueue that starts no queued task
ProcessQueueNone(run, q) == 0

\* ConcurrencyPool.processQueue: how many queued tasks it starts
ProcessQueue(run, q) ==
    IF run < concurrency THEN Min(concurrency - run, Len(q)) ELSE 0

\* may an I/O completion of item i run now
ItemActive(i) ==
    /\ i \in 1..Len(candidates)
    /\ CASE orch = "scanCT" -> pc = "await"
         [] orch = "scanNicheWithBing" -> pc \in {"poll", "drain"}
         [] OTHER -> pc = "scan" /\ i = nextIdx

\* item i's pipeline ends with result r: results.push(result), then what the
\* orchestrator does when the pipeline's promise settles
Complete(i, r, attempts, cls, route) ==
    LET fin == [stage |-> "done", attempts |-> attempts, clsLen |-> cls.len,
                clsPats |-> cls.pats, route |-> route]
        run == running - 1
        k == ProcessQueue(run, queue)
    IN  /\ results' = PushResult(results, r)
        /\ shopifyUrls' = (IF r.isShopify THEN Append(shopifyUrls, r.url)
                           ELSE shopifyUrls)
        /\ IF orch = "scanCT"
           THEN /\ running' = run + k
                /\ queue' = SubSeq(queue, k + 1, Len(queue))
                /\ item' = [j \in DOMAIN item |->
                              IF j = i THEN fin
                              ELSE IF \E m \in 1..k : queue[m] = j
                              THEN [item[j] EXCEPT !.stage = "dns"]
                              ELSE item[j]]
                /\ UNCHANGED nextIdx
           ELSE IF orch = "scanNicheWithBing"
           THEN /\ running' = run
                /\ item' = [item EXCEPT ![i] = fin]
                /\ UNCHANGED <<queue, nextIdx>>
           ELSE /\ nextIdx' = nextIdx + 1
                /\ item' = [item EXCEPT ![i] = fin]
                /\ UNCHANGED <<running, queue>>
        /\ UNCHANGED <<pc, candidates, report>>

\* dnsLookup / dnsCheck answers
DnsDone(i) ==
    /\ ItemActive(i)
    /\ item[i].stage = "dns"
    /\ \E ok \in BOOLEAN :
        IF ok
        THEN /\ item' = [item EXCEPT ![i].stage =
                            IF HasCname(orch) THEN "cname" ELSE "fetch"]
             /\ UNCHANGED <<pc, candidates, nextIdx, running, queue, results,
                            shopifyUrls, report>>
        ELSE Complete(i, DnsFailResult(orch, i), item[i].attempts, NullHtml, "dns")
    /\ UNCHANGED <<configVars, harvestVars>>

\* resolveCname answers (whatever it answers, the pipeline goes on)
CnameDone(i) ==
    /\ ItemActive(i)
    /\ item[i].stage = "cname"
    /\ item' = [item EXCEPT ![i].stage = "fetch"]
    /\ UNCHANGED <<configVars, harvestVars, pc, candidates, nextIdx, running, queue,
                   results, shopifyUrls, report>>

\* fetchHtml answers
FetchDone(i) ==
    /\ ItemActive(i)
    /\ item[i].stage = "fetch"
    /\ \E html \in FetchOutcomes :
        LET n == item[i].attempts + 1
        IN  IF html # Rejected /\ Falsy(html) /\ n < FetchAttemptLimit(orch)
            THEN /\ item' = [item EXCEPT ![i].stage = "retryWait", ![i].attempts = n]
                 /\ UNCHANGED <<pc, candidates, nextIdx, running, queue, results,
                                shopifyUrls, report>>
            ELSE Complete(i, FetchedResult(orch, i, html), n,
                          IF ClassifierCalled(orch, html) THEN html ELSE NullHtml,
                          FetchRoute(orch, html))
    /\ UNCHANGED <<configVars, harvestVars>>

\* scanCT: the 1000 ms before the second attempt are over
RetryDelayDone(i) ==
    /\ ItemActive(i)
    /\ item[i].stage = "retryWait"
    /\ item' = [item EXCEPT ![i].stage = "fetch"]
    /\ UNCHANGED <<configVars, harvestVars, pc, candidates, nextIdx, running, queue,
                   results, shopifyUrls, report>>

(***************************************************************************)
(* Scan stage: the loops that start the pipelines.                         *)
(***************************************************************************)
\* scanNiche, scanMassive, scanBingBulk: iteration i begins (new URL(url))
SeqBegin ==
    /\ ~IsConcurrent(orch)
    /\ pc = "scan"
    /\ nextIdx <= Len(candidates)
    /\ item[nextIdx].stage = "pending"
    /\ IF ParsesUrl(orch) /\ ~IsValidUrl(candidates[nextIdx].url)
       THEN Complete(nextIdx, InvalidUrlResult(orch, nextIdx), 0, NullHtml, "invalidUrl")
       ELSE /\ item' = [item EXCEPT ![nextIdx].stage = "dns"]
            /\ UNCHANGED <<pc, candidates, nextIdx, running, queue, results,
                           shopifyUrls, report>>
    /\ UNCHANGED <<configVars, harvestVars>>

\* the for loop is over: the summary and the return
SeqReturn ==
    /\ ~IsConcurrent(orch)
    /\ pc = "scan"
    /\ nextIdx > Len(candidates)
    /\ pc' = "returned"
    /\ report' = MakeReport(results, shopifyUrls)
    /\ UNCHANGED <<configVars, harvestVars, candidates, nextIdx, running, queue, item,
                   results, shopifyUrls>>

\* scanCT: domains.map(domain => pool.add(...)), one domain: queue.push(task)
\* and processQueue(); a started task runs up to its first await (dnsLookup)
CtAdd ==
    /\ orch = "scanCT"
    /\ pc = "map"
    /\ nextIdx <= Len(candidates)
    /\ LET q == Append(queue, nextIdx)
           k == ProcessQueue(running, q)
       IN  /\ running' = running + k
           /\ queue' = SubSeq(q, k + 1, Len(q))
           /\ item' = [j \in DOMAIN item |->
                         IF \E m \in 1..k : q[m] = j
                         THEN [item[j] EXCEPT !.stage = "dns"]
                         ELSE IF j = nextIdx THEN [item[j] EXCEPT !.stage = "queued"]
                         ELSE item[j]]
    /\ nextIdx' = nextIdx + 1
    /\ pc' = (IF nextIdx = Len(candidates) THEN "await" ELSE "map")
    /\ UNCHANGED <<configVars, harvestVars, candidates, results, shopifyUrls, report>>

\* scanCT: Promise.all(promises) resolved and waitAll() saw running = 0 and an
\* empty queue
CtReturn ==
    /\ orch = "scanCT"
    /\ pc = "await"
    /\ \A i \in DOMAIN item : item[i].stage = "done"
    /\ running = 0
    /\ queue = <<>>
    /\ pc' = "returned"
    /\ report' = MakeReport(results, shopifyUrls)
    /\ UNCHANGED <<configVars, harvestVars, candidates, nextIdx, running, queue, item,
                   results, shopifyUrls>>

\* scanNicheWithBing: running++; processUrl(searchResults[i]) runs up to its
\* first await; for an unparsable URL it pushes its result and returns at once,
\* its .finally callback waiting for the loop to yield
NwbDispatch ==
    /\ orch = "scanNicheWithBing"
    /\ pc = "loop"
    /\ nextIdx <= Len(candidates)
    /\ running < concurrency
    /\ running' = running + 1
    /\ nextIdx' = nextIdx + 1
    /\ IF ParsesUrl(orch) /\ ~IsValidUrl(candidates[nextIdx].url)
       THEN /\ results' = PushResult(results, InvalidUrlResult(orch, nextIdx))
            /\ item' = [item EXCEPT ![nextIdx].stage = "settled",
                                    ![nextIdx].route = "invalidUrl"]
       ELSE /\ item' = [item EXCEPT ![nextIdx].stage = "dns"]
            /\ UNCHANGED results
    /\ UNCHANGED <<configVars, harvestVars, pc, candidates, queue, shopifyUrls, report>>

Settled == {i \in DOMAIN item : item[i].stage = "settled"}

\* scanNicheWithBing reaches an await of its polling loops (running >= concurrency,
\* or the loop is over): the pending .finally callbacks run
NwbYield ==
    /\ orch = "scanNicheWithBing"
    /\ pc = "loop"
    /\ nextIdx > Len(candidates) \/ running >= concurrency
    /\ running' = running - Cardinality(Settled)
    /\ item' = [j \in DOMAIN item |->
                  IF j \in Settled THEN [item[j] EXCEPT !.stage = "done"] ELSE item[j]]
    /\ pc' = (IF nextIdx > Len(candidates) THEN "drain" ELSE "poll")
    /\ UNCHANGED <<configVars, harvestVars, candidates, nextIdx, queue, results,
                   shopifyUrls, report>>

\* the 100 ms timer fires and while (running >= concurrency) is false
NwbPollWake ==
    /\ orch = "scanNicheWithBing"
    /\ pc = "poll"
    /\ running < concurrency
    /\ pc' = "loop"
    /\ UNCHANGED <<configVars, harvestVars, candidates, nextIdx, running, queue, item,
                   results, shopifyUrls, report>>

\* the 100 ms timer fires and while (running > 0) is false
NwbReturn ==
    /\ orch = "scanNicheWithBing"
    /\ pc = "drain"
    /\ running = 0
    /\ pc' = "returned"
    /\ report' = MakeReport(results, shopifyUrls)
    /\ UNCHANGED <<configVars, harvestVars, candidates, nextIdx, running, queue, item,
                   results, shopifyUrls>>

ItemStep(i) == DnsDone(i) \/ CnameDone(i) \/ FetchDone(i) \/ RetryDelayDone(i)

Next ==
    \/ IssueHarvest
    \/ SearchReturn
    \/ BingBulkReturn
    \/ PauseDone
    \/ MassiveReturn
    \/ SeqBegin
    \/ SeqReturn
    \/ CtAdd
    \/ CtReturn
    \/ NwbDispatch
    \/ NwbYield
    \/ NwbPollWake
    \/ NwbReturn
    \/ \E i \in 1..(MaxItems * MaxQueries) : ItemStep(i)

Spec == Init /\ [][Next]_vars

(***************************************************************************)
(* massFetchDomainsFromCT.                                                 *)
(***************************************************************************)
scanVars == <<orch, pc, concurrency, useGenericQueries, nQueries, qi, harvestCalls,
              harvestLog, firstSeen, seenAgain, allUrls, urlToTitle, urlToQuery,
              candidates, nextIdx, running, queue, item, results, shopifyUrls, report>>

\* no orchestrator runs
IdleScan ==
    /\ orch = "none"
    /\ pc = "idle"
    /\ concurrency = 1
    /\ useGenericQueries = TRUE
    /\ nQueries = 0
    /\ qi = 0
    /\ harvestCalls = 0
    /\ harvestLog = <<>>
    /\ firstSeen = EmptyMap
    /\ seenAgain = {}
    /\ allUrls = <<>>
    /\ urlToTitle = EmptyMap
    /\ urlToQuery = EmptyMap
    /\ candidates = <<>>
    /\ nextIdx = 1
    /\ running = 0
    /\ queue = <<>>
    /\ item = <<>>
    /\ results = <<>>
    /\ shopifyUrls = <<>>
    /\ report = NoReport

defaultSleepMsBetweenRequests == 2000

MassOptions ==
    [limitPerPattern : {0, 1},
     maxTotalDomains : 0..MaxCap,
     sleepMsBetweenRequests : {0, defaultSleepMsBetweenRequests},
     stopAfterConsecutiveErrors : 0..MaxCap,
     monthsBack : 0..MaxMonths,
     useDifferentEndpoints : BOOLEAN]

\* the main query, one query per month back, the Identity endpoint
BuildQueries(opts) ==
    <<"main">> \o [k \in 1..opts.monthsBack |-> "date"]
               \o (IF opts.useDifferentEndpoints THEN <<"identity">> ELSE <<>>)

InitMass ==
    /\ IdleScan
    /\ IdleUnits
    /\ \E opts \in MassOptions :
        /\ mOpts = opts
        /\ mQueries = BuildQueries(opts)
        /\ mpc = (IF opts.sleepMsBetweenRequests > 0 THEN "initialPause" ELSE "loop")
    /\ queryIndex = 0
    /\ allDomains = <<>>
    /\ patternsUsed = <<>>
    /\ consecutiveErrors = 0
    /\ mLog = <<>>
    /\ mReturned = {}
    /\ mResult = NoMassResult

\* does the adapter of this kind of query let an error reach its caller:
\* fetchDomainsFromCT (behind fetchDomainsFromCTSilent), fetchDomainsFromCTWithDate
\* and fetchDomainsFromCTWithEndpoint all catch and return a list
AdapterThrows(kind) == FALSE

\* what one adapter call can do: fail (HTTP error, timeout, network failure:
\* nothing was collected yet) or answer distinct domains, at most limit of them
MassOutcomes(limit) ==
    {[failed |-> TRUE, list |-> <<>>]} \cup
    {[failed |-> FALSE, list |-> l] :
        l \in {x \in SeqsUpTo(Range(DomainPool),
                               IF limit > 0 THEN Min(limit, MaxItems) ELSE MaxItems) :
                 NoDup(x)}}

\* an aggregation that keeps only the latest answer
MassKeepLatest(all, list, k) == list

RECURSIVE MassAddAll(_, _, _)
\* for (const domain of domains) if (!allDomains.has(domain)) allDomains.add(domain)
MassAddAll(all, list, k) ==
    IF k > Len(list) THEN all
    ELSE MassAddAll(SetAdd(all, list[k]), list, k + 1)

\* Array.from(allDomains).sort(); DomainPool is in ascending order
SortDomains(all) ==
    LET In(d) == d \in Range(all)
    IN  SelectSeq(DomainPool, In)

CapReached(all) ==
    mOpts.maxTotalDomains > 0 /\ Len(all) >= mOpts.maxTotalDomains

\* the initial pause, a pause between requests or after an error is over
MassPauseDone ==
    /\ mpc \in {"initialPause", "pause"}
    /\ mpc' = "loop"
    /\ UNCHANGED <<scanVars, unitVars, mOpts, mQueries, queryIndex, allDomains, patternsUsed,
                   consecutiveErrors, mLog, mReturned, mResult>>

\* the loop takes the next query: queryIndex++, the cap check, the adapter call
MassIssue ==
    /\ mpc = "loop"
    /\ queryIndex < Len(mQueries)
    /\ queryIndex' = queryIndex + 1
    /\ mpc' = (IF CapReached(allDomains) THEN "finish" ELSE "fetching")
    /\ UNCHANGED <<scanVars, unitVars, mOpts, mQueries, allDomains, patternsUsed,
                   consecutiveErrors, mLog, mReturned, mResult>>

\* the adapter call of query queryIndex answers
MassFetchDone ==
    /\ mpc = "fetching"
    /\ \E out \in MassOutcomes(mOpts.limitPerPattern) :
        /\ mLog' = Append(mLog, out.failed)
        /\ mReturned' = mReturned \cup Range(out.list)
        /\ IF out.failed /\ AdapterThrows(mQueries[queryIndex])
           THEN LET ce == consecutiveErrors + 1
                IN  /\ UNCHANGED <<allDomains, patternsUsed>>
                    /\ IF mOpts.stopAfterConsecutiveErrors > 0
                          /\ ce >= mOpts.stopAfterConsecutiveErrors
                       THEN consecutiveErrors' = ce /\ mpc' = "finish"
                       ELSE IF ce >= maxConsecutiveErrors
                       THEN consecutiveErrors' = 0 /\ mpc' = "pause"
                       ELSE IF ce >= 3
                       THEN consecutiveErrors' = ce /\ mpc' = "pause"
                       ELSE /\ consecutiveErrors' = ce
                            /\ mpc' = (IF mOpts.sleepMsBetweenRequests > 0
                                       THEN "pause" ELSE "loop")
           ELSE LET all == MassAddAll(allDomains, out.list, 1)
                IN  /\ consecutiveErrors' =
                            (IF Len(out.list) > 0 THEN 0 ELSE consecutiveErrors)
                    /\ allDomains' = all
                    /\ patternsUsed' =
                            Append(patternsUsed, <<mQueries[queryIndex], queryIndex>>)
                    /\ mpc' = (IF CapReached(all) THEN "finish"
                               ELSE IF mOpts.sleepMsBetweenRequests > 0
                                       /\ queryIndex < Len(mQueries)
                               THEN "pause" ELSE "loop")
    /\ UNCHANGED <<scanVars, unitVars, mOpts, mQueries, queryIndex, mResult>>

\* the loop is left (queries exhausted or break): sort and return
MassReturn ==
    /\ mpc = "finish" \/ (mpc = "loop" /\ queryIndex = Len(mQueries))
    /\ mpc' = "returned"
    /\ mResult' = [returned |-> TRUE,
                   patternsUsed |-> patternsUsed,
                   totalDomains |-> Len(SortDomains(allDomains)),
                   domains |-> SortDomains(allDomains)]
    /\ UNCHANGED <<scanVars, unitVars, mOpts, mQueries, queryIndex, allDomains, patternsUsed,
                   consecutiveErrors, mLog, mReturned>>

NextMass == MassPauseDone \/ MassIssue \/ MassFetchDone \/ MassReturn

SpecMass == InitMass /\ [][NextMass]_vars

(***************************************************************************)
(* One call of the classifier on any content.                              *)
(***************************************************************************)
AllPatterns ==
    highConfidencePatterns \cup mediumConfidencePatterns \cup lowConfidencePatterns

\* <<p, q>>: the text p matches contains a text q matches, so a content
\* matching p matches q
PatternContains ==
    {<<"cdn.shopify.com", "shopify.com">>,
     <<".myshopify.com", "shopify.com">>,
     <<"shopify.theme.js", "shopify.theme">>,
     <<"shopify-section-id", "shopify-section">>}

\* can a text match exactly the patterns of pats
Realizable(pats) == \A c \in PatternContains : c[1] \in pats => c[2] \in pats

\* the html arguments: null, the empty string, and a text for every set of
\* patterns a text can match
Contents ==
    {NullHtml, [len |-> 0, pats |-> {}]} \cup
    {[len |-> MinHtmlLength, pats |-> P] : P \in {Q \in SUBSET AllPatterns : Realizable(Q)}}

InitClass ==
    /\ IdleScan
    /\ IdleMass
    /\ cpc = "input"
    /\ content \in Contents
    /\ verdict = "none"
    /\ score = -1
    /\ apc = "idle"
    /\ response = <<>>
    /\ aLimit = 0
    /\ ctSource = <<>>
    /\ ctDomains = <<>>
    /\ probe = <<>>
    /\ answer = NoAnswer

\* isShopify(html), which is isShopifyHtml(html)
IsShopifyCall ==
    /\ cpc = "input"
    /\ cpc' = "classified"
    /\ verdict' = isShopify(content)
    /\ UNCHANGED <<scanVars, massVars, adapterVars, probe, answer, content, score>>

\* getShopifyConfidence(html)
GetConfidenceCall ==
    /\ cpc = "classified"
    /\ cpc' = "scored"
    /\ score' = getShopifyConfidence(content)
    /\ UNCHANGED <<scanVars, massVars, adapterVars, probe, answer, content, verdict>>

NextClass == IsShopifyCall \/ GetConfidenceCall

SpecClass == InitClass /\ [][NextClass]_vars

(***************************************************************************)
(* One answer of crt.sh handed to the certificate log adapters.  A host    *)
(* name is the list of its labels; a certificate is the list of the lines  *)
(* of its name_value.  The names of the pool are trimmed and in lower case *)
(* already, so trim() and toLowerCase() leave them as they are.            *)
(***************************************************************************)
defaultMaxResults == 10000

storeDenylist == {"www", "admin", "cdn", "login", "api", "app", "mail", "ftp", "test"}

Store1 == <<"store1", "myshopify", "com">>

\* the name entries of the end-to-end scenario
ScenarioEntries ==
    {<<"*">> \o Store1, <<"www">> \o Store1, <<"admin", "myshopify", "com">>}

LinePool ==
    ScenarioEntries \cup
    {<<"store2", "myshopify", "com">>,
     <<"myshopify", "com">>,
     <<"store1", "www", "myshopify", "com">>,
     <<"", "myshopify", "com">>,
     <<"www", "example", "com">>}

\* name_value: one line, several lines, or empty
CertPool ==
    {<<l>> : l \in LinePool} \cup {<<<<"*">> \o Store1, <<"www">> \o Store1>>,
         <<<<"www">> \o Store1, <<"admin", "myshopify", "com">>>>,
         <<Store1, <<"store2", "myshopify", "com">>>>,
         <<>>}

\* the lines of an answer
LinesOf(data) == UNION {Range(data[k]) : k \in 1..Len(data)}

\* domain.endsWith('.myshopify.com')
EndsWithMyshopify(d) ==
    Len(d) >= 3 /\ SubSeq(d, Len(d) - 1, Len(d)) = <<"myshopify", "com">>

RECURSIVE ReplaceFirst(_, _)
\* domain.replace(label + '.', ''): the first occurrence, wherever it is
ReplaceFirst(d, label) ==
    IF Len(d) < 2 THEN d
    ELSE IF Head(d) = label THEN Tail(d)
    ELSE <<Head(d)>> \o ReplaceFirst(Tail(d), label)

\* a cleaning that keeps the denylisted store names
CleanSourceLineNoDenylist(line) ==
    IF ~EndsWithMyshopify(line) THEN <<>>
    ELSE LET cleanDomain == ReplaceFirst(ReplaceFirst(line, "*"), "www")
         IN  IF cleanDomain # <<>> /\ cleanDomain # <<"myshopify", "com">>
                /\ Len(cleanDomain) >= 2 /\ cleanDomain[1] # ""
             THEN cleanDomain ELSE <<>>

\* getShopifyDomainsFromCT: the domain kept for one line, <<>> for none
CleanSourceLine(line) ==
    IF ~EndsWithMyshopify(line) THEN <<>>
    ELSE LET cleanDomain == ReplaceFirst(ReplaceFirst(line, "*"), "www")
         IN  IF /\ cleanDomain # <<>>
                /\ cleanDomain # <<"myshopify", "com">>
                /\ Len(cleanDomain) >= 2
                /\ cleanDomain[1] # ""
                /\ cleanDomain[1] \notin storeDenylist
             THEN cleanDomain ELSE <<>>

\* if (domain.startsWith(label + '.')) domain = domain.substring(...)
StripLeading(d, label) == IF Len(d) >= 2 /\ d[1] = label THEN Tail(d) ELSE d

\* fetchDomainsFromCT (and its copies in the mass scan): the domain kept for
\* one line, <<>> for none
CleanScannerLine(line) ==
    LET domain == StripLeading(StripLeading(line, "*"), "www")
    IN  IF domain # <<>> /\ domain[1] # "" /\ Len(domain) >= 2
        THEN domain ELSE <<>>

RECURSIVE AddCleaned(_, _, _)
\* domains.add(...) for every line kept
AddCleaned(domains, cleaned, j) ==
    IF j > Len(cleaned) THEN domains
    ELSE AddCleaned(IF cleaned[j] = <<>> THEN domains ELSE SetAdd(domains, cleaned[j]),
                    cleaned, j + 1)

RECURSIVE SourceDomains(_, _, _, _, _)
\* getShopifyDomainsFromCT: the loop over the certificates
SourceDomains(data, maxResults, k, processed, domains) ==
    IF k > Len(data) \/ processed >= maxResults THEN domains
    ELSE IF data[k] = <<>>
    THEN SourceDomains(data, maxResults, k + 1, processed, domains)
    ELSE SourceDomains(data, maxResults, k + 1, processed + 1,
                       AddCleaned(domains,
                                  [j \in 1..Len(data[k]) |-> CleanSourceLine(data[k][j])],
                                  1))

\* { title: domain, url: `https://${domain}` }
SourceCandidate(domain) == [title |-> domain, url |-> <<"https://">> \o domain]

getShopifyDomainsFromCT(data, maxResults) ==
    LET domains == SourceDomains(data, maxResults, 1, 0, <<>>)
    IN  [k \in 1..Len(domains) |-> SourceCandidate(domains[k])]

RECURSIVE ScannerDomains(_, _, _, _)
\* fetchDomainsFromCT: the loop over the certificates
ScannerDomains(data, limit, k, domains) ==
    IF k > Len(data) \/ (limit > 0 /\ Len(domains) >= limit) THEN domains
    ELSE IF data[k] = <<>>
    THEN ScannerDomains(data, limit, k + 1, domains)
    ELSE ScannerDomains(data, limit, k + 1,
                        AddCleaned(domains,
                                   [j \in 1..Len(data[k]) |-> CleanScannerLine(data[k][j])],
                                   1))

fetchDomainsFromCT(data, limit) ==
    LET resultArray == ScannerDomains(data, limit, 1, <<>>)
    IN  IF limit > 0 /\ Len(resultArray) > limit
        THEN SubSeq(resultArray, 1, limit) ELSE resultArray

InitAdapter ==
    /\ IdleScan
    /\ IdleMass
    /\ cpc = "idle"
    /\ content = NullHtml
    /\ verdict = "none"
    /\ score = -1
    /\ apc = "answered"
    /\ response \in SeqsUpTo(CertPool, MaxCerts)
    /\ aLimit \in (0..MaxCap) \cup {defaultMaxResults}
    /\ ctSource = <<>>
    /\ ctDomains = <<>>
    /\ probe = <<>>
    /\ answer = NoAnswer

\* getShopifyDomainsFromCT(maxResults) reads the answer
GetShopifyDomainsFromCTCall ==
    /\ apc = "answered"
    /\ apc' = "sourced"
    /\ ctSource' = getShopifyDomainsFromCT(response, aLimit)
    /\ UNCHANGED <<scanVars, massVars, classVars, probe, answer, response, aLimit, ctDomains>>

\* fetchDomainsFromCT(pattern, {limit}) reads the answer
FetchDomainsFromCTCall ==
    /\ apc = "sourced"
    /\ apc' = "fetched"
    /\ ctDomains' = fetchDomainsFromCT(response, aLimit)
    /\ UNCHANGED <<scanVars, massVars, classVars, probe, answer, response, aLimit, ctSource>>

NextAdapter == GetShopifyDomainsFromCTCall \/ FetchDomainsFromCTCall

SpecAdapter == InitAdapter /\ [][NextAdapter]_vars

(***************************************************************************)
(* The network probes on one answer of the network each.                   *)
(***************************************************************************)
\* http: what fetch() and response.text() can do: the timer aborts the
\* request, the request fails, a response arrives (its body read or failing
\* to read).  dns: what dns.lookup can do: an address, or an error with or
\* without a message.  cname: what dns.resolveCname can do: records, or an
\* error.
ProbeEvents ==
    LET HttpEvents ==
            [kind : {"abort", "network"}, status : {0}, body : {NullHtml}]
            \cup [kind : {"response", "bodyError"},
                  status : {200, 204, 301, 404, 500},
                  body : FetchOutcomes \ {NullHtml}]
        DnsEvents ==
            [kind : {"address"}, code : {""}, message : {""}]
            \cup [kind : {"error"}, code : {"ENOTFOUND", "EAI_AGAIN"},
                  message : {"", "getaddrinfo failed"}]
        CnameEvents ==
            [kind : {"records"}, cnames : {<<"shops.myshopify.com">>},
             code : {""}, message : {""}]
            \cup [kind : {"error"}, cnames : {<<>>},
                  code : {"ENODATA", "ENOTFOUND", "ETIMEOUT"},
                  message : {"", "queryCname failed"}]
    IN  [http : HttpEvents, method : {"GET", "HEAD"}, dns : DnsEvents,
         cname : CnameEvents]

\* a fetchHtml whose catch block rethrows what is not a timeout
fetchHtmlRethrow(ev, method) ==
    IF ev.kind = "abort" THEN Returned(NullHtml)
    ELSE IF ev.kind = "network" \/ ev.kind = "bodyError" THEN [state |-> "threw", value |-> NullHtml]
    ELSE IF ~(ev.status >= 200 /\ ev.status <= 299) THEN Returned(NullHtml)
    ELSE IF method = "HEAD" THEN Returned([len |-> 0, pats |-> {}])
    ELSE Returned(ev.body)

\* fetchHtml: try { fetch; !response.ok; HEAD; response.text() } catch { null }
fetchHtml(ev, method) ==
    IF ev.kind = "abort" THEN Returned(NullHtml)
    ELSE IF ev.kind = "network" THEN Returned(NullHtml)
    ELSE IF ~(ev.status >= 200 /\ ev.status <= 299) THEN Returned(NullHtml)
    ELSE IF method = "HEAD" THEN Returned([len |-> 0, pats |-> {}])
    ELSE IF ev.kind = "bodyError" THEN Returned(NullHtml)
    ELSE Returned(ev.body)

\* dnsLookup: {ok: true, address} or {ok: false, error: message || default}
dnsLookup(ev) ==
    IF ev.kind = "address" THEN Returned([ok |-> TRUE, error |-> ""])
    ELSE Returned([ok |-> FALSE,
                   error |-> IF ev.message # "" THEN ev.message ELSE "DNS lookup failed"])

\* resolveCname: {ok: true, cnames} or {ok: false, cnames: [], error?}
resolveCname(ev) ==
    IF ev.kind = "records" THEN Returned([ok |-> TRUE, cnames |-> ev.cnames, error |-> ""])
    ELSE IF ev.code = "ENODATA" \/ ev.code = "ENOTFOUND"
    THEN Returned([ok |-> FALSE, cnames |-> <<>>, error |-> ""])
    ELSE Returned([ok |-> FALSE, cnames |-> <<>>,
                   error |-> IF ev.message # "" THEN ev.message
                             ELSE "CNAME resolution failed"])

InitProbe ==
    /\ IdleScan
    /\ IdleMass
    /\ cpc = "idle"
    /\ content = NullHtml
    /\ verdict = "none"
    /\ score = -1
    /\ apc = "idle"
    /\ response = <<>>
    /\ aLimit = 0
    /\ ctSource = <<>>
    /\ ctDomains = <<>>
    /\ probe \in ProbeEvents
    /\ answer = NoAnswer

FetchHtmlCall ==
    /\ answer.html.state = "pending"
    /\ answer' = [answer EXCEPT !.html = fetchHtml(probe.http, probe.method)]
    /\ UNCHANGED <<scanVars, massVars, classVars, adapterVars, probe>>

DnsLookupCall ==
    /\ answer.dns.state = "pending"
    /\ answer' = [answer EXCEPT !.dns = dnsLookup(probe.dns)]
    /\ UNCHANGED <<scanVars, massVars, classVars, adapterVars, probe>>

ResolveCnameCall ==
    /\ answer.cname.state = "pending"
    /\ answer' = [answer EXCEPT !.cname = resolveCname(probe.cname)]
    /\ UNCHANGED <<scanVars, massVars, classVars, adapterVars, probe>>

SpecProbe == InitProbe /\ [][FetchHtmlCall \/ DnsLookupCall \/ ResolveCnameCall]_vars

(***************************************************************************)
(* One run of any entry point; the runs under fairness.                    *)
(***************************************************************************)
\* ---- scanNiche's engine cascade, one provider call at a time ----

\* const searchEngines = [Google, DuckDuckGo, Bing], tried in this order
searchEngines == <<"Google", "DuckDuckGo", "Bing">>

\* a cascade that goes on to the next engine when one returned an empty list
NextProviderOnEmpty(k, out, apiKey) ==
    IF k < Len(searchEngines) /\ (out.raised \/ Len(out.list) = 0) THEN k + 1
    ELSE IF k <= Len(searchEngines) /\ Len(out.list) = 0 /\ apiKey
         THEN Len(searchEngines) + 1
         ELSE 0

\* the provider called after provider k ended with out, 0 when the cascade is
\* over: catch goes on to the next engine, a call that returned breaks the
\* loop, and the API (provider 4) is called after the loop if
\* searchResults.length === 0 && process.env.SERP_API_KEY
NextProvider(k, out, apiKey) ==
    IF k < Len(searchEngines) /\ out.raised THEN k + 1
    ELSE IF k <= Len(searchEngines) /\ Len(out.list) = 0 /\ apiKey
         THEN Len(searchEngines) + 1
         ELSE 0

\* scanNiche is called; nQueries counts the providers it may call: the three
\* engines, and searchWithAPI when SERP_API_KEY is set
InitCascade ==
    /\ orch = "scanNiche"
    /\ concurrency = 1
    /\ useGenericQueries = TRUE
    /\ nQueries \in {Len(searchEngines), Len(searchEngines) + 1}
    /\ pc = "issue"
    /\ qi = 1
    /\ harvestCalls = 0
    /\ harvestLog = <<>>
    /\ firstSeen = EmptyMap
    /\ seenAgain = {}
    /\ allUrls = <<>>
    /\ urlToTitle = EmptyMap
    /\ urlToQuery = EmptyMap
    /\ candidates = <<>>
    /\ nextIdx = 1
    /\ running = 0
    /\ queue = <<>>
    /\ item = <<>>
    /\ results = <<>>
    /\ shopifyUrls = <<>>
    /\ report = NoReport
    /\ IdleMass
    /\ IdleUnits

\* provider qi returns or throws; harvestLog keeps who was called and how the
\* call ended
EngineReturn ==
    /\ orch = "scanNiche"
    /\ pc = "searching"
    /\ \E out \in SingleOutcomes(orch) :
        LET nxt == NextProvider(qi, out, nQueries > Len(searchEngines))
        IN  /\ harvestLog' = Append(harvestLog,
                    [engine |-> IF qi <= Len(searchEngines)
                                THEN searchEngines[qi] ELSE "API",
                     raised |-> out.raised,
                     found |-> Len(out.list)])
            /\ IF nxt # 0
               THEN /\ pc' = "issue"
                    /\ qi' = nxt
                    /\ UNCHANGED <<candidates, item, nextIdx, running, queue,
                                   results, shopifyUrls, report>>
               ELSE /\ qi' = qi
                    /\ IF Len(out.list) = 0
                       THEN ReturnEmpty
                       ELSE StartScan(out.list)
    /\ UNCHANGED <<configVars, harvestCalls, firstSeen, seenAgain, allUrls,
                   urlToTitle, urlToQuery>>

SpecCascade == InitCascade /\ [][IssueHarvest \/ EngineReturn]_vars

\* the concurrency is whatever integer the caller passes: scanCT's CLI hands
\* over parseInt(process.env.CONCURRENCY || '10', 10) unchecked
SpecAnyConc == InitWith((0 - 1)..MaxConc) /\ [][Next]_vars

InitAll == Init \/ InitMass

NextAll == Next \/ NextMass

SpecAll == InitAll /\ [][NextAll]_vars

\* every external call eventually returns and the event loop runs what is
\* ready: the program does not stop while a step is possible
SpecLive == Init /\ [][Next]_vars /\ WF_vars(Next)

(***************************************************************************)
(* Properties.                                                             *)
(***************************************************************************)
\* the entries of rs that belong to candidate i
ResultsOf(rs, i) == {k \in 1..Len(rs) : rs[k].idx = i}

Finished(i) == item[i].stage \in {"done", "settled"}

FailureRoutes == {"invalidUrl", "dns", "fetch", "short", "exception"}

\* the pipelines in flight
InFlight == {i \in DOMAIN item : item[i].stage \in {"dns", "cname", "fetch", "retryWait"}}

C2_DnsFailureStopsPipeline ==
    /\ [](\A i \in DOMAIN item :
            item[i].route = "dns" =>
                /\ item[i].stage = "done"
                /\ item[i].attempts = 0
                /\ Cardinality(ResultsOf(results, i)) = 1
                /\ \A k \in ResultsOf(results, i) :
                      /\ ~results[k].dnsOk
                      /\ ~results[k].htmlFetched
                      /\ ~results[k].isShopify)
    /\ [][\A i \in DOMAIN item : item[i].route = "dns" => item'[i] = item[i]]_vars

\* a returned scan with an item that failed DNS and another that was fetched
C2_Witness ==
    /\ report.returned
    /\ \E i, j \in DOMAIN item :
          /\ item[i].route = "dns"
          /\ item[j].attempts > 0

\* C3: in scanCT and scanNicheWithBing the pipelines in flight, and the
\* counter running, never exceed the configured concurrency.
C3_InFlightBounded ==
    IsConcurrent(orch) =>
        /\ Cardinality(InFlight) <= concurrency
        /\ running <= concurrency

\* the pool is full while a candidate waits for a slot
C3_Witness ==
    /\ IsConcurrent(orch)
    /\ Cardinality(InFlight) = concurrency
    /\ \/ queue # <<>>
       \/ orch = "scanNicheWithBing" /\ pc = "poll" /\ nextIdx <= Len(candidates)

\* C4: in scanBingBulk, scanMassive and massFetchDomainsFromCT no URL or
\* domain occurs twice in the aggregate, in the candidates scanned, or in the
\* returned output.
C4_AggregateDistinct ==
    /\ IsBulk(orch) =>
          /\ NoDup(allUrls)
          /\ NoDup([k \in 1..Len(candidates) |-> candidates[k].url])
          /\ NoDup([k \in 1..Len(report.results) |-> report.results[k].url])
    /\ NoDup(allDomains)
    /\ NoDup(mResult.domains)

\* a bulk scan returned after a URL came back from a second harvest call
C4_Witness ==
    /\ IsBulk(orch)
    /\ seenAgain # {}
    /\ report.returned
    /\ Len(report.results) > 0

\* C5: with stopAfterConsecutiveErrors = 2, once the adapter calls of queries
\* 1 and 2 have both failed, no third adapter call is made.
C5_StopsAfterTwoFailures ==
    (/\ mOpts.stopAfterConsecutiveErrors = 2
     /\ Len(mLog) >= 2
     /\ mLog[1]
     /\ mLog[2])
    => (Len(mLog) = 2 /\ mpc # "fetching")

\* C6: in every orchestrator the classifier is never handed a content shorter
\* than MinHtmlLength, and an item whose content was not handed to it is not
\* reported as Shopify.
C6_ShortContentNotClassified ==
    \A i \in DOMAIN item :
        /\ item[i].clsLen = -1 \/ item[i].clsLen >= MinHtmlLength
        /\ \A k \in ResultsOf(results, i) :
              results[k].isShopify => item[i].clsLen >= MinHtmlLength

\* C7: in scanBingBulk and scanMassive the title kept for a URL, and reported
\* for it, is the one of the first harvest call that returned the URL; in
\* scanBingBulk the reported query is that call's query.
C7_FirstTitleWins ==
    IsBulk(orch) =>
        /\ \A u \in DOMAIN urlToTitle :
              u \in DOMAIN firstSeen /\ urlToTitle[u] = firstSeen[u].title
        /\ \A k \in 1..Len(results) :
              LET u == candidates[results[k].idx].url
              IN  /\ u \in DOMAIN firstSeen
                  /\ results[k].title = firstSeen[u].title
                  /\ orch = "scanBingBulk" => results[k].query = firstSeen[u].query

\* scanBingBulk reported a URL that a later query returned again
C7_Witness ==
    /\ orch = "scanBingBulk"
    /\ report.returned
    /\ \E k \in 1..Len(report.results) :
          candidates[report.results[k].idx].url \in seenAgain

\* C8: in scanBingBulk and scanMassive a harvest call that raises adds nothing
\* to the aggregate and the run goes on with the next call or the scan stage;
\* the scan stage is reached only after every harvest call was made.
C8_HarvestFailureIsEmpty ==
    /\ [](IsBulk(orch) /\ pc \notin {"issue", "searching", "pause"}
            => harvestCalls = nQueries /\ Len(harvestLog) = nQueries)
    /\ [][(/\ IsBulk(orch)
           /\ Len(harvestLog') = Len(harvestLog) + 1
           /\ harvestLog'[Len(harvestLog')] = "raised")
          => /\ allUrls' = allUrls
             /\ urlToTitle' = urlToTitle
             /\ urlToQuery' = urlToQuery
             /\ pc' \in {"issue", "scan"}]_vars

\* a bulk scan whose first harvest call raised returned the results of the
\* candidates of the second
C8_Witness ==
    /\ IsBulk(orch)
    /\ Len(harvestLog) = 2
    /\ harvestLog[1] = "raised"
    /\ report.returned
    /\ Len(report.results) > 0

\* C9: massFetchDomainsFromCT is never stuck before it returns, it loses no
\* domain an adapter call returned, and what it returns is every domain
\* returned by the calls made, wherever the loop stopped.
C9_ReturnsAllCollected ==
    /\ Range(allDomains) = mReturned
    /\ mResult.returned =>
          /\ Range(mResult.domains) = mReturned
          /\ mResult.totalDomains = Cardinality(mReturned)
    /\ ~mResult.returned => ENABLED NextMass

\* a mass scan returned domains although one of its queries failed
C9_Witness ==
    /\ mResult.returned
    /\ mResult.totalDomains > 0
    /\ \E k \in 1..Len(mLog) : mLog[k]
    /\ \E k \in 1..Len(mLog) : ~mLog[k]

\* the exits the item state machine names
NamedRoutes == {"dns", "fetch", "short", "classified"}

\* the exits of the code: also the URL that does not parse and the catch block
CodeRoutes == NamedRoutes \cup {"invalidUrl", "exception"}

\* every pipeline that ended did so by an exit of Routes, with one result
DoneBy(Routes) ==
    \A i \in DOMAIN item :
        Finished(i) => /\ item[i].route \in Routes
                       /\ Cardinality(ResultsOf(results, i)) = 1

\* C10 (as stated, its clause on the exits): a pipeline reaches Done, its
\* result appended, through one of domain-check failure, fetch failure,
\* content-too-short or classification.
C10_DoneByNamedRoutes == DoneBy(NamedRoutes)

\* C10 (amended): when every external call returns, every candidate's
\* pipeline eventually reaches Done with its result appended, through one of
\* unparsable URL, domain-check failure, fetch failure, content-too-short,
\* classification or caught exception; the orchestrator eventually returns
\* its report, and does so only once every pipeline is Done.
C10_DoneByCodeRoutes ==
    /\ \A i \in 1..(MaxItems * MaxQueries) :
          (i \in DOMAIN item) ~> (i \in DOMAIN item /\ item[i].stage = "done")
    /\ <>(report.returned)
    /\ [](DoneBy(CodeRoutes))
    /\ [](report.returned => \A i \in DOMAIN item : item[i].stage = "done")

\* a concurrent scan returned with one item ended by the URL check and one by
\* classification
C10_Witness ==
    /\ IsConcurrent(orch)
    /\ report.returned
    /\ \E i, j \in DOMAIN item :
          /\ item[i].route = "invalidUrl"
          /\ item[j].route = "classified"

\* the numbers of matched patterns of each tier
TierA(html) == CountMatches(highConfidencePatterns, html)

TierB(html) == CountMatches(mediumConfidencePatterns, html)

TierC(html) == CountMatches(lowConfidencePatterns, html)

Classified == cpc \in {"classified", "scored"}

\* C11: every non-empty content matching at least one high-confidence pattern
\* is classified positive, whatever else it matches.
C11_TierAIsPositive ==
    (Classified /\ ~Falsy(content) /\ TierA(content) >= 1) => verdict = TRUE

\* positive on the CDN host name, which also matches the low pattern shopify.com
C11_Witness ==
    /\ Classified
    /\ content.pats = CdnPats
    /\ verdict = TRUE

\* C12: with no high-confidence pattern matched, two medium and no low
\* pattern give a positive, one medium and one low pattern give a negative.
C12_TierBThresholds ==
    (Classified /\ ~Falsy(content) /\ TierA(content) = 0) =>
        /\ (TierB(content) = 2 /\ TierC(content) = 0) => verdict = TRUE
        /\ (TierB(content) = 1 /\ TierC(content) = 1) => verdict = FALSE

\* a negative for one medium pattern with one low pattern
C12_Witness ==
    /\ Classified
    /\ content.pats = {"data-shopify", "/cart"}
    /\ verdict = FALSE

\* C13: a content matching no high and no medium pattern is negative,
\* however many low patterns it matches.
C13_TierCNeverSuffices ==
    (Classified /\ TierA(content) = 0 /\ TierB(content) = 0) => verdict = FALSE

\* a negative for the three low patterns together
C13_Witness ==
    /\ Classified
    /\ content.pats = lowConfidencePatterns
    /\ verdict = FALSE

\* C14: for null or the empty string isShopifyHtml and isShopify return
\* false and getShopifyConfidence returns 0.
C14_EmptyIsNegative ==
    Falsy(content) =>
        /\ Classified => verdict = FALSE
        /\ isShopify(content) = isShopifyHtml(content)
        /\ cpc = "scored" => score = 0

\* the absent content, classified and scored
C14_Witness ==
    /\ cpc = "scored"
    /\ content = NullHtml

\* the weights of the claim, in tenths, by pattern
ClaimedWeight(p) ==
    CASE p \in {"cdn.shopify.com", ".myshopify.com"} -> 4
      [] p \in {"window.shopify", "shopify.theme", "shopifycdn.com"} -> 3
      [] p \in {"data-shopify", "shopify-section"} -> 2
      [] p \in {"/collections/", "/products/"} -> 1
      [] OTHER -> 0

RECURSIVE ClaimedSum(_)
ClaimedSum(pats) ==
    IF pats = {} THEN 0
    ELSE LET p == CHOOSE x \in pats : TRUE
         IN  ClaimedWeight(p) + ClaimedSum(pats \ {p})

\* C15: the score is the sum of the weights of the weighted patterns the
\* content matches, clamped to 1.0 (10 tenths): it lies in [0, 1].
C15_ConfidenceClamped ==
    cpc = "scored" =>
        /\ score \in 0..10
        /\ score = Min(ClaimedSum(content.pats), 10)

\* a content whose weights add up to more than 1.0
C15_Witness ==
    /\ cpc = "scored"
    /\ ClaimedSum(content.pats) > 10
    /\ score = 10

\* C16: in scanBingBulk and massFetchDomainsFromCT with a pacing delay
\* greater than 0, the end of a query, whatever its outcome, never leaves the
\* loop ready to issue the next query: a pause comes first.
C16_PauseBetweenQueries ==
    /\ [][(/\ orch = "scanBingBulk"
           /\ sleepMsBetweenQueries > 0
           /\ pc = "searching"
           /\ pc' # "searching")
          => pc' # "issue"]_vars
    /\ [][(/\ mOpts.sleepMsBetweenRequests > 0
           /\ mpc = "fetching"
           /\ mpc' = "loop")
          => queryIndex' = Len(mQueries)]_vars

\* C17: in scanBingBulk and scanMassive at most one harvest call is in
\* flight, no item's pipeline starts before every harvest call has returned
\* or failed, and the aggregate does not change once the scan stage began.
C17_HarvestBeforeScan ==
    /\ [](IsBulk(orch) =>
            /\ harvestCalls - Len(harvestLog) \in {0, 1}
            /\ (\E i \in DOMAIN item : item[i].stage # "pending")
                  => harvestCalls = nQueries /\ Len(harvestLog) = nQueries)
    /\ [][(IsBulk(orch) /\ pc \in {"scan", "returned"})
          => /\ allUrls' = allUrls
             /\ urlToTitle' = urlToTitle
             /\ urlToQuery' = urlToQuery
             /\ harvestCalls' = harvestCalls]_vars

\* a bulk scan fetching an item after its two harvest calls
C17_Witness ==
    /\ IsBulk(orch)
    /\ nQueries = 2
    /\ pc = "scan"
    /\ \E i \in DOMAIN item : item[i].stage = "fetch"

\* C18: for an answer whose name entries are *.store1.myshopify.com,
\* www.store1.myshopify.com and admin.myshopify.com, getShopifyDomainsFromCT
\* (with its default cap) yields exactly one candidate, store1.myshopify.com.
C18_SourceFoldsAndDenylists ==
    (/\ apc \in {"sourced", "fetched"}
     /\ aLimit = defaultMaxResults
     /\ LinesOf(response) = ScenarioEntries)
    => ctSource = <<SourceCandidate(Store1)>>

\* the scenario's answer, read by getShopifyDomainsFromCT
C18_Witness ==
    /\ apc = "sourced"
    /\ aLimit = defaultMaxResults
    /\ LinesOf(response) = ScenarioEntries
    /\ Len(ctSource) = 1

\* C19: fetchDomainsFromCT returns no domain whose leading label is www,
\* admin, api or cdn, and for the scenario's entries returns exactly
\* store1.myshopify.com.
C19_ScannerDenylists ==
    apc = "fetched" =>
        /\ \A k \in 1..Len(ctDomains) : ctDomains[k][1] \notin {"www", "admin", "api", "cdn"}
        /\ (aLimit = 0 /\ LinesOf(response) = ScenarioEntries)
              => ctDomains = <<Store1>>

\* C20: when maxTotalDomains = M is set, massFetchDomainsFromCT returns at
\* most M domains, whatever each query returns.
C20_TotalWithinCap ==
    (mResult.returned /\ mOpts.maxTotalDomains > 0)
    => /\ mResult.totalDomains <= mOpts.maxTotalDomains
       /\ Len(mResult.domains) <= mOpts.maxTotalDomains

\* C21: the probes report failure as a value and never throw.  fetchHtml
\* returns the body text on a success status and null on timeout, network
\* error or non-success status; dnsLookup returns ok=false with an error for
\* an unresolvable host; resolveCname returns ok=false with no alias.
C21_ProbesNeverThrow ==
    /\ answer.html.state # "threw" /\ answer.dns.state # "threw"
    /\ answer.cname.state # "threw"
    /\ answer.html.state = "returned" =>
          LET ev == probe.http
              success == ev.kind = "response" /\ ev.status \in 200..299
          IN  /\ (success /\ probe.method = "GET") => answer.html.value = ev.body
              /\ (ev.kind \in {"abort", "network"} \/ ev.status \notin 200..299)
                   => IsNull(answer.html.value)
    /\ (answer.dns.state = "returned" /\ probe.dns.kind = "error") =>
          /\ ~answer.dns.value.ok
          /\ answer.dns.value.error # ""
    /\ (answer.cname.state = "returned" /\ probe.cname.kind = "error") =>
          /\ ~answer.cname.value.ok
          /\ answer.cname.value.cnames = <<>>

\* a request that failed, a host that does not resolve and a zone without
\* alias, all three answered
C21_Witness ==
    /\ probe.http.kind = "network"
    /\ probe.dns.kind = "error"
    /\ probe.cname.kind = "error"
    /\ answer.html.state = "returned"
    /\ answer.dns.state = "returned"
    /\ answer.cname.state = "returned"

\* C22: in scanCT the content fetch of an item is attempted at most twice,
\* the second attempt only after a first attempt without content and after
\* the delay; a finished item is never fetched again; the other
\* orchestrators attempt the fetch exactly once per item.
C22_BoundedRetry ==
    /\ [](\A i \in DOMAIN item :
            /\ item[i].attempts <= (IF orch = "scanCT" THEN 2 ELSE 1)
            /\ item[i].stage = "retryWait" => (orch = "scanCT" /\ item[i].attempts = 1)
            /\ (item[i].stage = "done" /\ item[i].route \in {"fetch", "short", "classified"})
                 => item[i].attempts >= 1
            /\ (item[i].stage = "done" /\ item[i].route = "fetch" /\ orch = "scanCT")
                 => item[i].attempts = 2)
    /\ [][\A i \in (DOMAIN item) \cap (DOMAIN item') :
            /\ item[i].stage = "done" => item'[i] = item[i]
            /\ item'[i].attempts # item[i].attempts =>
                  /\ item[i].stage = "fetch"
                  /\ item'[i].attempts = item[i].attempts + 1
                  /\ item'[i].stage \in {"retryWait", "done"}
                  /\ item'[i].stage = "retryWait" => results' = results
            /\ (item[i].attempts = 1 /\ item'[i].stage = "fetch" /\ item[i].stage # "fetch")
                 => item[i].stage = "retryWait"]_vars

\* scanCT classified the content its second attempt fetched
C22_Witness ==
    /\ orch = "scanCT"
    /\ \E i \in DOMAIN item :
        /\ item[i].stage = "done"
        /\ item[i].attempts = 2
        /\ item[i].route = "classified"

\* C23: with concurrency above 1 in scanCT and scanNicheWithBing, results
\* grows only by appending the result of the item whose pipeline just ended
\* (completion order), and the returned results hold every candidate exactly
\* once, in that order.
C23_CompletionOrder ==
    /\ []((IsConcurrent(orch) /\ concurrency > 1 /\ report.returned) =>
            /\ report.results = results
            /\ Len(results) = Len(candidates)
            /\ \A i \in 1..Len(candidates) : \E k \in 1..Len(results) : results[k].idx = i)
    /\ [][(IsConcurrent(orch) /\ concurrency > 1 /\ results' # results) =>
            \E i \in DOMAIN item :
                /\ ~Finished(i)
                /\ item'[i].stage \in {"done", "settled"}
                /\ Len(results') = Len(results) + 1
                /\ SubSeq(results', 1, Len(results)) = results
                /\ results'[Len(results')].idx = i]_vars

\* a concurrent scan returned with the second candidate's result before the
\* first candidate's
C23_Witness ==
    /\ IsConcurrent(orch)
    /\ concurrency > 1
    /\ report.returned
    /\ Len(report.results) = 2
    /\ report.results[1].idx = 2
    /\ report.results[2].idx = 1

\* C24: in scanBingBulk and scanMassive the aggregate holds exactly the URLs
\* the successful harvest calls returned, whichever call returned them and in
\* whatever order; a call that returns only URLs already held leaves the
\* aggregate as it is; the scan stage gets exactly these URLs.
C24_AggregateIsUnion ==
    /\ [](IsBulk(orch) =>
            /\ Range(allUrls) = DOMAIN firstSeen
            /\ pc \notin {"issue", "searching", "pause"} =>
                  Urls(candidates) = DOMAIN firstSeen)
    /\ [][(IsBulk(orch) /\ DOMAIN firstSeen' = DOMAIN firstSeen) => allUrls' = allUrls]_vars

\* both harvest calls of a bulk scan succeeded, the second one returning a
\* URL already held and a new one
C24_Witness ==
    /\ IsBulk(orch)
    /\ harvestLog = <<"ok", "ok">>
    /\ seenAgain # {}
    /\ Cardinality(DOMAIN firstSeen) > Cardinality(seenAgain)
    /\ pc = "scan"

\* the items whose fetched content the classifier accepts
Accepted ==
    {i \in DOMAIN item :
        /\ item[i].route = "classified"
        /\ isShopifyHtml([len |-> item[i].clsLen, pats |-> item[i].clsPats])}

\* C25: every item that fails DNS resolution or content fetch carries an
\* error, has isShopify = false and adds nothing to shopifyUrls; the positives
\* are the items whose fetched content the classifier accepts; the report
\* counts every candidate.
C25_FailuresAreNotPositives ==
    /\ [](\A k \in 1..Len(results) :
            LET i == results[k].idx
            IN  /\ item[i].route \in {"dns", "fetch"} =>
                      (results[k].error # "none" /\ ~results[k].isShopify)
                /\ results[k].isShopify <=> i \in Accepted)
    /\ [](Len(shopifyUrls) = Cardinality(Accepted))
    /\ [](report.returned =>
            /\ report.scannedCount = Len(candidates)
            /\ report.shopifyCount = Cardinality(Accepted)
            /\ Len(report.shopifyUrls) = Cardinality(Accepted))
    /\ [][\A i \in (DOMAIN item) \cap (DOMAIN item') :
            (item[i].route = "none" /\ item'[i].route \in {"dns", "fetch"})
            => shopifyUrls' = shopifyUrls]_vars

\* a batch of 3: one DNS failure, one fetch failure, one Tier-A content;
\* the report counts 3 scanned and 1 positive
C25_Witness ==
    /\ report.returned
    /\ report.scannedCount = 3
    /\ report.shopifyCount = 1
    /\ \E i, j, k \in DOMAIN item :
          /\ item[i].route = "dns"
          /\ item[j].route = "fetch"
          /\ item[k].route = "classified"
          /\ item[k].clsPats \cap highConfidencePatterns # {}
    /\ Cardinality({k \in 1..Len(report.results) : report.results[k].error # "none"}) = 2

\* C26: in every report, the single-query scans included, each URL is
\* scanned once: it appears at most once in results and at most once in
\* shopifyUrls.
C26_EachUrlOnce ==
    /\ NoDup([k \in 1..Len(results) |-> results[k].url])
    /\ NoDup(shopifyUrls)
    /\ report.returned =>
          /\ NoDup([k \in 1..Len(report.results) |-> report.results[k].url])
          /\ NoDup(report.shopifyUrls)

\* C27: in scanBingBulk and scanMassive two URLs that differ only in the
\* letter case of their host are one candidate: no two candidates scanned
\* have the same host once its case is folded (every URL of the pool has the
\* same scheme and an empty path).
C27_HostCaseFolded ==
    IsBulk(orch) =>
        \A i, j \in 1..Len(candidates) :
            (i # j /\ IsValidUrl(candidates[i].url) /\ IsValidUrl(candidates[j].url))
            => Hostname(candidates[i].url) # Hostname(candidates[j].url)

\* C28: in scanBingBulk, scanCT and scanNicheWithBing the alias lookup never
\* blocks the result: after it answers, the content fetch is the next step
\* and nothing is reported yet; an item whose domain resolved and whose
\* lookup gave no alias had its content fetched, and carries no error other
\* than those of the fetch and of the length check.
C28_AliasNeverBlocks ==
    /\ [](HasCname(orch) =>
            \A k \in 1..Len(results) :
                (results[k].dnsOk /\ results[k].cnames = <<>>) =>
                    /\ item[results[k].idx].attempts >= 1
                    /\ item[results[k].idx].route \in {"fetch", "short", "classified"}
                    /\ item[results[k].idx].route = "classified" => results[k].error = "none"
                    /\ results[k].error \in {"none", NoHtmlError(orch),
                                            "HTML trop court ou invalide"})
    /\ [][\A i \in (DOMAIN item) \cap (DOMAIN item') :
            (item[i].stage = "cname" /\ item'[i] # item[i])
            => (item'[i].stage = "fetch" /\ results' = results)]_vars

\* an item without alias was classified as a Shopify site
C28_Witness ==
    /\ HasCname(orch)
    /\ \E k \in 1..Len(results) :
          /\ results[k].dnsOk
          /\ results[k].cnames = <<>>
          /\ results[k].isShopify

\* C29: each source adapter returns at most the cap it is asked for:
\* getShopifyDomainsFromCT(maxResults) at most maxResults candidates, and
\* fetchDomainsFromCT with limit L > 0 at most L domains, for every answer.
C29_AdaptersWithinCap ==
    aLimit > 0 =>
        /\ apc \in {"sourced", "fetched"} => Len(ctSource) <= aLimit
        /\ apc = "fetched" => Len(ctDomains) <= aLimit

\* C30: shopifyUrls is the sequence of the url fields of the results entries
\* with isShopify = true, in the same relative order, at every moment and in
\* the report, and shopifyCount is its length.
C30_ShopifyUrlsMirrorResults ==
    LET Positives(rs) ==
            LET pos == SelectSeq(rs, LAMBDA r : r.isShopify)
            IN  [k \in 1..Len(pos) |-> pos[k].url]
    IN  /\ shopifyUrls = Positives(results)
        /\ report.returned =>
              /\ report.shopifyUrls = Positives(report.results)
              /\ report.shopifyCount = Len(report.shopifyUrls)

\* a concurrent scan reported two Shopify sites, the second candidate first
C30_Witness ==
    /\ IsConcurrent(orch)
    /\ report.returned
    /\ Len(report.shopifyUrls) = 2
    /\ report.results[1].idx = 2
    /\ report.shopifyUrls[1] # report.shopifyUrls[2]


\* C31: scanNiche calls its engines in the order Google, DuckDuckGo, Bing,
\* engine k+1 only after engines 1..k all raised; the third-party API is called
\* only with a key configured and no result so far; and when no provider found
\* anything scanNiche returns the empty report, scannedCount = 0.
C31_EngineCascade ==
    /\ \A j \in 1..Len(harvestLog) :
          IF harvestLog[j].engine = "API"
          THEN /\ nQueries > Len(searchEngines)
               /\ \A i \in 1..(j - 1) : harvestLog[i].found = 0
          ELSE /\ j <= Len(searchEngines)
               /\ harvestLog[j].engine = searchEngines[j]
               /\ \A i \in 1..(j - 1) : harvestLog[i].raised
    /\ (/\ pc \notin {"issue", "searching"}
        /\ \A j \in 1..Len(harvestLog) : harvestLog[j].found = 0)
          => /\ pc = "returned"
             /\ report.returned
             /\ report.scannedCount = 0
             /\ report.results = <<>>

\* the three engines raised, the API found nothing: the empty report
C31_Witness ==
    /\ Len(harvestLog) = 4
    /\ \A j \in 1..3 : harvestLog[j].raised
    /\ harvestLog[4].engine = "API"
    /\ ~harvestLog[4].raised
    /\ report.returned
    /\ report.scannedCount = 0


\* C32: in scanCT and scanBingBulk a result has isShopify = true only if its
\* HTML was fetched, that HTML has at least 100 characters and the classifier
\* accepts it; an alias pointing to Shopify alone never makes it positive.
C32_PositiveNeedsContent ==
    orch \in {"scanCT", "scanBingBulk"} =>
        \A k \in 1..Len(results) :
            LET i == results[k].idx
            IN  results[k].isShopify =>
                    /\ results[k].htmlFetched
                    /\ item[i].route = "classified"
                    /\ item[i].clsLen >= MinHtmlLength
                    /\ isShopifyHtml([len |-> item[i].clsLen, pats |-> item[i].clsPats])

\* scanCT and scanBingBulk: a domain whose alias points to Shopify answered a
\* body under 100 characters, or none, and is reported negative
C32_Witness ==
    /\ orch \in {"scanCT", "scanBingBulk"}
    /\ \E k \in 1..Len(results) :
          /\ results[k].cnames # <<>>
          /\ item[results[k].idx].route \in {"short", "fetch"}
          /\ ~results[k].isShopify


\* C33: in every result of every orchestrator, isShopify = true implies
\* htmlFetched = true and htmlFetched = true implies dnsOk = true, when the
\* result is appended and ever after: an appended result never changes, and
\* the report carries the same results.
C33_FlagsAreNested ==
    /\ [](\A k \in 1..Len(results) :
            /\ results[k].isShopify => results[k].htmlFetched
            /\ results[k].htmlFetched => results[k].dnsOk)
    /\ [](report.returned => report.results = results)
    /\ [][\A k \in 1..Len(results) :
            k <= Len(results') /\ results'[k] = results[k]]_vars

\* a report with a positive, and with a domain that resolved and gave no HTML
C33_Witness ==
    /\ report.returned
    /\ \E k \in 1..Len(report.results) : report.results[k].isShopify
    /\ \E k \in 1..Len(report.results) :
          /\ report.results[k].dnsOk
          /\ ~report.results[k].htmlFetched


\* C34: a result whose error records that the HTML was not retrieved has
\* htmlFetched = false, also when the server answered a success status with an
\* empty body (fetchHtml returned the empty string).
C34_NoHtmlMeansNotFetched ==
    \A k \in 1..Len(results) :
        results[k].error = NoHtmlError(orch) => ~results[k].htmlFetched


\* C35: for every integer concurrency, 0 and negative values included, scanCT
\* and scanNicheWithBing with a non-empty candidate list are never in a state
\* where candidates remain undispatched, no item is in flight and no step,
\* dispatch included, is possible.
C35_PoolNeverStarved ==
    (/\ orch \in {"scanCT", "scanNicheWithBing"}
     /\ Len(candidates) > 0
     /\ \E i \in DOMAIN item : item[i].stage \in {"pending", "queued"}
     /\ InFlight = {})
        => ENABLED Next


\* C36: every candidate getShopifyDomainsFromCT yields is a suffix of one
\* name entry of the answer and ends with ".myshopify.com": stripping "*."
\* and "www." only ever removes a leading prefix of the entry.
C36_CandidateIsSuffixOfEntry ==
    apc \in {"sourced", "fetched"} =>
        \A k \in 1..Len(ctSource) :
            LET d == ctSource[k].title
            IN  /\ EndsWithMyshopify(d)
                /\ \E line \in LinesOf(response) :
                      /\ Len(d) <= Len(line)
                      /\ SubSeq(line, Len(line) - Len(d) + 1, Len(line)) = d


C38_HostedRuleIsRedundant ==
    Classified =>
        verdict = (\/ TierA(content) >= 1
                   \/ TierB(content) >= 2
                   \/ (TierB(content) >= 1 /\ TierC(content) >= 2))

\* a content for which the hosted-subdomain rule applies, without Tier-A match
C38_Witness ==
    /\ Classified
    /\ ~Falsy(content)
    /\ TierA(content) = 0
    /\ PatternTest(".myshopify.com", content)
    /\ TierB(content) + TierC(content) >= 3
    /\ verdict = TRUE

=============================================================================
